---- MODULE Spec2Model ----
(***************************************************************************)
(* git-hook: several hook scripts per git hook timing, chained through one *)
(* delegation stub.  The model follows src/git-hook.go: the registry file  *)
(* <timing>.hooks, the installed directory <timing>.installed, the         *)
(* commands init, install, update, edit, and the dispatcher test.          *)
(*                                                                         *)
(* Text (paths, URLs, file contents, file names) is a sequence of one      *)
(* character strings, so that trimming, line scanning, URL parsing, base   *)
(* names and lexical directory order are computed as the code computes     *)
(* them.                                                                   *)
(***************************************************************************)
EXTENDS Integers, Sequences, FiniteSets, TLC

\* ------------------------------------------------------------------ bounds

\* install is offered while the registry file holds fewer lines than this
MaxInstall == 2

\* ------------------------------------------------------------------- text

\* the characters of the model in byte order (sort.Strings order of Glob)
ByteOrder ==
  << "\n", " ", "%", "-", ".", "/", "0", "1", "2", "3", "4", "5", "6", "7",
     "8", "9", ":", "a", "b", "h", "p", "s", "t", "u", "x" >>

\* the rank of each character in that order
ByteRank ==
  [c \in {ByteOrder[i] : i \in 1..Len(ByteOrder)} |->
     CHOOSE i \in 1..Len(ByteOrder) : ByteOrder[i] = c]

Code(c) == ByteRank[c]

\* a < b as byte strings
RECURSIVE StrLess(_, _)
StrLess(a, b) ==
  IF b = <<>> THEN FALSE
  ELSE IF a = <<>> THEN TRUE
  ELSE IF Head(a) = Head(b) THEN StrLess(Tail(a), Tail(b))
  ELSE Code(Head(a)) < Code(Head(b))

\* the elements of a finite set of strings in ascending byte order
RECURSIVE SortStrings(_)
SortStrings(S) ==
  IF S = {} THEN <<>>
  ELSE LET m == CHOOSE x \in S : \A y \in S \ {x} : StrLess(x, y)
       IN  <<m>> \o SortStrings(S \ {m})

HasPrefix(s, p) == Len(s) >= Len(p) /\ SubSeq(s, 1, Len(p)) = p

IsSpace(c) == c \in {" ", "\n", "\t", "\r"}

RECURSIVE TrimLeft(_)
TrimLeft(s) == IF s # <<>> /\ IsSpace(Head(s)) THEN TrimLeft(Tail(s)) ELSE s

RECURSIVE TrimRight(_)
TrimRight(s) ==
  IF s # <<>> /\ IsSpace(s[Len(s)]) THEN TrimRight(SubSeq(s, 1, Len(s) - 1)) ELSE s

\* strings.TrimSpace
TrimSpace(s) == TrimRight(TrimLeft(s))

\* position of the first line feed of s, 0 when there is none
RECURSIVE IndexNL(_, _)
IndexNL(s, i) ==
  IF i > Len(s) THEN 0 ELSE IF s[i] = "\n" THEN i ELSE IndexNL(s, i + 1)

\* one trailing carriage return is dropped from a scanned line
DropCR(s) ==
  IF s # <<>> /\ s[Len(s)] = "\r" THEN SubSeq(s, 1, Len(s) - 1) ELSE s

\* bufio.Scanner with the default split function ScanLines: the lines of the
\* data without their terminators; a final unterminated line counts when it
\* is not empty
RECURSIVE ScanLines(_)
ScanLines(data) ==
  IF data = <<>> THEN <<>>
  ELSE LET i == IndexNL(data, 1)
       IN  IF i = 0 THEN << DropCR(data) >>
           ELSE << DropCR(SubSeq(data, 1, i - 1)) >>
                  \o ScanLines(SubSeq(data, i + 1, Len(data)))

\* position of the last "/" of s, 0 when there is none
RECURSIVE LastSlash(_, _)
LastSlash(s, i) ==
  IF i = 0 THEN 0 ELSE IF s[i] = "/" THEN i ELSE LastSlash(s, i - 1)

RECURSIVE StripSlashes(_)
StripSlashes(s) ==
  IF s # <<>> /\ s[Len(s)] = "/" THEN StripSlashes(SubSeq(s, 1, Len(s) - 1)) ELSE s

\* filepath.Base: the last element of the path, trailing separators removed;
\* "." for the empty path and "/" for a path of separators only
Base(p) ==
  IF p = <<>> THEN << "." >>
  ELSE LET q == StripSlashes(p)
           r == SubSeq(q, LastSlash(q, Len(q)) + 1, Len(q))
       IN  IF r = <<>> THEN << "/" >> ELSE r

Digit(d) == ByteOrder[Code("0") + d]

\* the %d verb of fmt.Sprintf for a natural number
RECURSIVE Itoa(_)
Itoa(n) == IF n < 10 THEN << Digit(n) >> ELSE Itoa(n \div 10) \o << Digit(n % 10) >>

\* --------------------------------------------------------------- resolver

HttpPrefix  == << "h", "t", "t", "p", ":", "/", "/" >>
HttpsPrefix == << "h", "t", "t", "p", "s", ":", "/", "/" >>

HexDigits ==
  {"0", "1", "2", "3", "4", "5", "6", "7", "8", "9",
   "a", "b", "c", "d", "e", "f", "A", "B", "C", "D", "E", "F"}

\* the percent escapes the model's URLs use, with the byte each stands for
PctByte == [e \in {<< "2", "0" >>, << "2", "5" >>} |->
              IF e = << "2", "0" >> THEN " " ELSE "%"]

\* net/url rejects a "%" that is not followed by two hexadecimal digits
RECURSIVE ValidEscapes(_)
ValidEscapes(s) ==
  IF s = <<>> THEN TRUE
  ELSE IF Head(s) = "%"
       THEN /\ Len(s) >= 3
            /\ s[2] \in HexDigits
            /\ s[3] \in HexDigits
            /\ ValidEscapes(SubSeq(s, 4, Len(s)))
       ELSE ValidEscapes(Tail(s))

\* net/url unescape of a path whose escapes are valid
RECURSIVE Unescape(_)
Unescape(s) ==
  IF s = <<>> THEN <<>>
  ELSE IF Head(s) = "%"
       THEN << PctByte[SubSeq(s, 2, 3)] >> \o Unescape(SubSeq(s, 4, Len(s)))
       ELSE << Head(s) >> \o Unescape(Tail(s))

\* net/url escape of a path: a space and a percent sign are written as escapes
RECURSIVE EscapePath(_)
EscapePath(s) ==
  IF s = <<>> THEN <<>>
  ELSE (IF Head(s) = " " THEN << "%", "2", "0" >>
        ELSE IF Head(s) = "%" THEN << "%", "2", "5" >>
        ELSE << Head(s) >>) \o EscapePath(Tail(s))

\* position of the first "/" of s at or after i, Len(s) + 1 when there is none
RECURSIVE IndexSlash(_, _)
IndexSlash(s, i) ==
  IF i > Len(s) THEN i ELSE IF s[i] = "/" THEN i ELSE IndexSlash(s, i + 1)

NilHook == [kind |-> "nil", scheme |-> <<>>, host |-> <<>>, path |-> <<>>]

\* url.Parse of scheme://host/path: the path is kept unescaped
UrlParse(s, scheme) ==
  LET rest == SubSeq(s, Len(scheme) + 4, Len(s))
      cut  == IndexSlash(rest, 1)
  IN  IF ValidEscapes(rest)
        THEN [ok |-> TRUE,
              hook |-> [kind |-> "url", scheme |-> scheme,
                        host |-> SubSeq(rest, 1, cut - 1),
                        path |-> Unescape(SubSeq(rest, cut, Len(rest)))]]
        ELSE [ok |-> FALSE, hook |-> NilHook]

ParseUrlHook(s) ==
  IF HasPrefix(s, HttpPrefix) THEN UrlParse(s, << "h", "t", "t", "p" >>)
  ELSE IF HasPrefix(s, HttpsPrefix) THEN UrlParse(s, << "h", "t", "t", "p", "s" >>)
  ELSE [ok |-> FALSE, hook |-> NilHook]

ParseFileHook(s) ==
  [ok |-> TRUE,
   hook |-> [kind |-> "file", scheme |-> <<>>, host |-> <<>>, path |-> s]]

\* the parsers are tried in order and the first that succeeds wins; when none
\* does, the error returned is the outer err, which is never assigned
ParseHookString(s) ==
  LET u == ParseUrlHook(s)
      f == ParseFileHook(s)
  IN  IF u.ok THEN u ELSE IF f.ok THEN f ELSE [ok |-> TRUE, hook |-> NilHook]

\* Hook.String
HookString(h) ==
  IF h.kind = "url"
    THEN h.scheme \o << ":", "/", "/" >> \o h.host \o EscapePath(h.path)
    ELSE h.path

\* Hook.Name
HookName(h) == Base(h.path)

\* the file name updateHookScript installs hook h of index i under: "%d-%s",
\* then filepath.Join, whose Clean drops a trailing separator
ArtifactName(i, h) == StripSlashes(Itoa(i) \o << "-" >> \o HookName(h))

\* ---------------------------------------------------------------- timings

\* the git hook names, in the order of the list
timings ==
  << "applypatch-msg",
     "pre-applypatch",
     "post-applypatch",
     "pre-commit",
     "prepare-commit-msg",
     "commit-msg",
     "post-commit",
     "pre-rebase",
     "post-checkout",
     "post-merge",
     "pre-receive",
     "update",
     "post-update",
     "pre-auto-gc",
     "post-rewrite" >>

TimingSet == {timings[i] : i \in 1..Len(timings)}

AnyTiming(t) == TRUE

isCorrectTiming(t) == \E i \in 1..Len(timings) : timings[i] = t

\* the characters of each timing, as fmt.Sprintf writes them into the stub
TimingText(t) ==
  CASE t = "applypatch-msg" ->
         << "a", "p", "p", "l", "y", "p", "a", "t", "c", "h", "-", "m", "s",
         "g" >>
    [] t = "pre-applypatch" ->
         << "p", "r", "e", "-", "a", "p", "p", "l", "y", "p", "a", "t", "c",
         "h" >>
    [] t = "post-applypatch" ->
         << "p", "o", "s", "t", "-", "a", "p", "p", "l", "y", "p", "a", "t",
         "c", "h" >>
    [] t = "pre-commit" ->
         << "p", "r", "e", "-", "c", "o", "m", "m", "i", "t" >>
    [] t = "prepare-commit-msg" ->
         << "p", "r", "e", "p", "a", "r", "e", "-", "c", "o", "m", "m", "i",
         "t", "-", "m", "s", "g" >>
    [] t = "commit-msg" ->
         << "c", "o", "m", "m", "i", "t", "-", "m", "s", "g" >>
    [] t = "post-commit" ->
         << "p", "o", "s", "t", "-", "c", "o", "m", "m", "i", "t" >>
    [] t = "pre-rebase" ->
         << "p", "r", "e", "-", "r", "e", "b", "a", "s", "e" >>
    [] t = "post-checkout" ->
         << "p", "o", "s", "t", "-", "c", "h", "e", "c", "k", "o", "u", "t"
         >>
    [] t = "post-merge" ->
         << "p", "o", "s", "t", "-", "m", "e", "r", "g", "e" >>
    [] t = "pre-receive" ->
         << "p", "r", "e", "-", "r", "e", "c", "e", "i", "v", "e" >>
    [] t = "update" ->
         << "u", "p", "d", "a", "t", "e" >>
    [] t = "post-update" ->
         << "p", "o", "s", "t", "-", "u", "p", "d", "a", "t", "e" >>
    [] t = "pre-auto-gc" ->
         << "p", "r", "e", "-", "a", "u", "t", "o", "-", "g", "c" >>
    [] t = "post-rewrite" ->
         << "p", "o", "s", "t", "-", "r", "e", "w", "r", "i", "t", "e" >>

\* rootHookFormat before and after its %s verb
rootHookHead ==
  << "#", "!", "/", "b", "i", "n", "/", "s", "h", "\n", "g", "i", "t", " ",
  "h", "o", "o", "k", " ", "t", "e", "s", "t", " " >>

rootHookTail == << " ", "\"", "$", "@", "\"", "\n" >>

\* fmt.Sprintf(rootHookFormat, t)
rootHookFormat(t) == rootHookHead \o TimingText(t) \o rootHookTail

\* ------------------------------------------------------------------ inputs

\* the timings whose files the state holds: the first and the last of the
\* list and one between; the files of the others are handled alike
Tracked == {timings[1], "pre-commit", timings[Len(timings)]}

\* the timings the commands of the model are given; "bogus" is no timing
CmdTimings == {"pre-commit"}
ArgTimings == CmdTimings \cup {"bogus"}

\* the names whose files under <git-dir>/hooks the state holds: a name that
\* is no timing has files there once something creates them
Held == Tracked \cup ArgTimings

LocalX     == << "x" >>
GoodUrl    == HttpPrefix \o << "h", "/", "u" >>
BadUrl     == HttpsPrefix \o << "h", "/", "%" >>

SpaceUrl   == HttpPrefix \o << "h", "/", "a", " ", "b" >>
EscapedUrl == HttpPrefix \o << "h", "/", "a", "%", "2", "0", "b" >>

\* the registration strings given to install
InstallArgs == {LocalX, GoodUrl}

\* registration strings of both forms: a path, URLs written as url.String
\* writes them, a URL with a space in its path, and a string ParseUrlHook
\* refuses, which ParseFileHook takes as a path
ResolveArgs == {LocalX, GoodUrl, EscapedUrl, SpaceUrl, BadUrl}

\* n lines "x", each with its line feed
ManyLines(n) == [i \in 1..(2 * n) |-> IF i % 2 = 1 THEN "x" ELSE "\n"]

\* texts an editor leaves in a registry file: nothing; a line without its
\* terminator; a padded line, a blank line and a URL with a bad escape
EditContents ==
  { <<>>,
    << "x" >>,
    << " ", "x", " ", "\n", "\n" >> \o BadUrl \o << "\n" >> }

\* the text an editor leaves in the runs that try the argument check
ArgContents == { << "x", "\n" >> }

\* argument lists without a timing: empty, or starting with a name that is
\* no timing
ArgLists == { <<>>, << "bogus" >> }

\* three entries whose artifacts differ in name from those of ManyLines
MixedLines == << "u", "\n", "x", "\n", "u", "\n" >>

\* a registry of more than ten entries, and one of three
LongContents == { ManyLines(11), MixedLines }

\* the states of <git-dir>/rebase-merge and <git-dir>/rebase-apply
PathStates == {"absent", "file", "dir"}

\* modification times, relative to the one runEdit reads before the editor
\* runs: 0 is the Unix epoch, 1 the time of a file that exists
ModTimes == {0, 1, 2}

\* ------------------------------------------------------------------- state

VARIABLES
  reg,       \* reg[t]: the registry file hooks/<t>.hooks
  inst,      \* inst[t]: the installed directory hooks/<t>.installed
  stub,      \* stub[t]: the file hooks/<t> git runs
  cmd,       \* the invocation of init, install, update, edit or show
  disp,      \* the invocation of test, the dispatcher
  prevSync   \* the installed files left by the update that ran just before

vars == << reg, inst, stub, cmd, disp, prevSync >>

AbsentFile == [exists |-> FALSE, data |-> <<>>]
NoDir      == [exists |-> FALSE, files |-> {}]

\* cmd: the command, its timing and argument, where it stands (pc), its error
\* ("" for none), the hooks it read, the files left to remove, the index of
\* the next hook, the registry file as the command found it, the number of
\* files it found installed, and the modification times runEdit read (before
\* and after the editor; the second repeats the first when runEdit returned
\* before reading it)
Cmd(name, t, arg, pc, err, hooks, todo, idx, pre, found, times) ==
  [name |-> name, timing |-> t, arg |-> arg, pc |-> pc, err |-> err,
   hooks |-> hooks, todo |-> todo, idx |-> idx, pre |-> pre, found |-> found,
   times |-> times]

Idle ==
  Cmd("none", "", <<>>, "idle", "", <<>>, <<>>, 0, AbsentFile, 0, << 0, 0 >>)

\* an invocation that returned at once: err is "" on success
Returned(name, t, err) ==
  Cmd(name, t, <<>>, "done", err, <<>>, <<>>, 0, AbsentFile, 0, << 0, 0 >>)

\* during and at: where an update stood when the dispatcher enumerated the
\* installed directory ("" and 0 when none was under way)
DispIdle ==
  [pc |-> "idle", timing |-> "", rebase |-> << FALSE, FALSE >>,
   todo |-> <<>>, ran |-> <<>>, err |-> "", during |-> "", at |-> 0]

NoSync == [valid |-> FALSE, files |-> {}]

\* no invocation is under way
Quiet == cmd.pc \in {"idle", "done"} /\ disp.pc \in {"idle", "done"}

Init ==
  /\ reg = [t \in Held |-> AbsentFile]
  /\ inst = [t \in Held |-> NoDir]
  /\ stub = [t \in Held |-> AbsentFile]
  /\ cmd = Idle
  /\ disp = DispIdle
  /\ prevSync = NoSync

\* ------------------------------------------------------------- file system

Names(files) == {e.name : e \in files}

Entry(files, name) == CHOOSE e \in files : e.name = name

Without(files, name) == {e \in files : e.name # name}

\* a symbolic link to target
Link(name, target) == [name |-> name, kind |-> "link", target |-> target]

\* a regular file holding the content served at url, which does not change
Fetched(name, url) == [name |-> name, kind |-> "file", target |-> url]

\* a write at offset 0 of a file opened without O_TRUNC
Overlay(old, new) == new \o SubSeq(old, Len(new) + 1, Len(old))

\* UrlHook.Install: fetch, then ioutil.WriteFile, which truncates a file that
\* exists and writes through a symbolic link that exists
UrlInstall(h, files, name, ioOk) ==
  IF ~ioOk THEN [ok |-> FALSE, files |-> files]
  ELSE IF name \in Names(files) /\ Entry(files, name).kind = "link"
    THEN [ok |-> TRUE, files |-> files]
    ELSE [ok |-> TRUE,
          files |-> Without(files, name) \cup {Fetched(name, HookString(h))}]

\* FileHook.Install: os.Symlink, which fails when the new name exists or the
\* target is the empty string
FileInstall(h, files, name, ioOk) ==
  IF ~ioOk \/ name \in Names(files) \/ h.path = <<>>
    THEN [ok |-> FALSE, files |-> files]
    ELSE [ok |-> TRUE, files |-> files \cup {Link(name, h.path)}]

\* Hook.Install at <installed dir>/name
HookInstall(h, files, name, ioOk) ==
  IF h.kind = "url" THEN UrlInstall(h, files, name, ioOk)
  ELSE IF h.kind = "file" THEN FileInstall(h, files, name, ioOk)
  ELSE [ok |-> FALSE, files |-> files]

\* ---------------------------------------------------------------- registry

\* the lines allHooks keeps: those that are not empty once trimmed
KeptLines(data) == SelectSeq(ScanLines(data), LAMBDA l : Len(TrimSpace(l)) > 0)

\* the text allHooks hands to the resolver for a kept line: sc.Text()
LineText(l) == l

\* allHooks on the registry file f
allHooks(f) ==
  IF ~f.exists THEN [ok |-> FALSE, hooks |-> <<>>]
  ELSE LET lines  == KeptLines(f.data)
           parsed == [i \in 1..Len(lines) |-> ParseHookString(LineText(lines[i]))]
       IN  IF \A i \in 1..Len(lines) : parsed[i].ok
             THEN [ok |-> TRUE, hooks |-> [i \in 1..Len(lines) |-> parsed[i].hook]]
             ELSE [ok |-> FALSE, hooks |-> <<>>]

\* ---------------------------------------------------------------- commands

\* unshiftTiming: the first argument when it is a timing of the list
unshiftTiming(args) ==
  IF Len(args) = 0 \/ ~isCorrectTiming(args[1])
    THEN [ok |-> FALSE, timing |-> ""]
    ELSE [ok |-> TRUE, timing |-> args[1]]

\* a command of main whose unshiftTiming returned the error: it shows the help
\* and exits with status 1
WrongTiming(name, args) ==
  /\ Quiet
  /\ ~unshiftTiming(args).ok
  /\ cmd' = Returned(name, IF args = <<>> THEN "" ELSE args[1], "wrong timing")
  /\ disp' = DispIdle
  /\ prevSync' = NoSync
  /\ UNCHANGED << reg, inst, stub >>

\* os.OpenFile(path, O_WRONLY|O_CREATE, perm) and WriteString(content): the
\* file is created when absent and is not truncated, the content is written
\* from offset 0
WriteTruncating(f, content) == [exists |-> TRUE, data |-> content]

WriteFile(f, content) == [exists |-> TRUE, data |-> Overlay(f.data, content)]

\* createRootHook: for every timing of the list, the stub is written to
\* hooks/<timing> and the empty string to hooks/<timing>.hooks
createRootHook ==
  /\ Quiet
  /\ stub' = [t \in Held |->
                IF t \in TimingSet THEN WriteFile(stub[t], rootHookFormat(t))
                ELSE stub[t]]
  /\ reg' = [t \in Held |->
                IF t \in TimingSet THEN WriteFile(reg[t], <<>>) ELSE reg[t]]
  /\ cmd' = Returned("init", "", "")
  /\ disp' = DispIdle
  /\ prevSync' = NoSync
  /\ UNCHANGED inst

\* installHook appends the entry when updateHookScript returned no error
AppendsAlways(installOk) == TRUE

AppendsEntry(installOk) == installOk

\* installHook: resolve s, install it at index len(hooks), where hooks is what
\* allHooks returned (nothing when it failed: its error is dropped), then
\* append the hook's string and a line feed to the registry file
installHook(t, s) ==
  /\ Quiet
  /\ isCorrectTiming(t)
  /\ Len(ScanLines(reg[t].data)) < MaxInstall
  /\ \E ioOk \in BOOLEAN :
       LET p     == ParseHookString(s)
           h     == p.hook
           n     == Len(allHooks(reg[t]).hooks)
           r     == HookInstall(h, inst[t].files, ArtifactName(n, h), ioOk)
           done(err) == Cmd("install", t, s, "done", err, << h >>, <<>>, n,
                            reg[t], Cardinality(inst[t].files), << 0, 0 >>)
       IN  IF ~p.ok
             THEN /\ cmd' = done("parse")
                  /\ UNCHANGED << reg, inst >>
             ELSE /\ inst' = [inst EXCEPT ![t] = [exists |-> TRUE, files |-> r.files]]
                  /\ IF AppendsEntry(r.ok)
                       THEN reg' = [reg EXCEPT ![t] =
                              [exists |-> TRUE,
                               data |-> reg[t].data \o HookString(h) \o << "\n" >>]]
                       ELSE UNCHANGED reg
                  /\ cmd' = done(IF r.ok THEN "" ELSE "install")
  /\ disp' = DispIdle
  /\ prevSync' = NoSync
  /\ UNCHANGED stub

\* the files the removal loop of updateHooks removes: every match of the glob
RemovesFirstOnly(matches) == IF matches = <<>> THEN <<>> ELSE << Head(matches) >>

RemoveTargets(matches) == matches

\* where updateHooks stands: in the removal loop, in the install loop, or done
Phase(todo, hooks, idx) ==
  IF todo # <<>> THEN "remove" ELSE IF idx < Len(hooks) THEN "install" ELSE "done"

\* updateHooks calls MkdirAll on the installed directory d after allHooks, and
\* only when allHooks returned no error
MkdirFirst(readOk, d) == [d EXCEPT !.exists = TRUE]

MkdirAfterRead(readOk, d) == IF readOk THEN [d EXCEPT !.exists = TRUE] ELSE d

\* the start of updateHooks on registry file f: allHooks, MkdirAll, Glob
SyncStart(name, t, f, times) ==
  LET r     == allHooks(f)
      found == SortStrings(Names(inst[t].files))
      todo  == RemoveTargets(found)
  IN  /\ inst' = [inst EXCEPT ![t] = MkdirAfterRead(r.ok, @)]
      /\ cmd' = IF ~r.ok
                  THEN Cmd(name, t, <<>>, "done", "read", <<>>, <<>>, 0, f,
                           Len(found), times)
                  ELSE Cmd(name, t, <<>>, Phase(todo, r.hooks, 0), "",
                           r.hooks, todo, 0, f, Len(found), times)

\* the update command
updateHooks(t) ==
  /\ Quiet
  /\ isCorrectTiming(t)
  /\ SyncStart("update", t, reg[t], << 0, 0 >>)
  /\ prevSync' = IF /\ cmd.name = "update" /\ cmd.pc = "done" /\ cmd.err = ""
                    /\ cmd.timing = t
                   THEN [valid |-> TRUE, files |-> inst[t].files]
                   ELSE NoSync
  /\ disp' = DispIdle
  /\ UNCHANGED << reg, stub >>

\* one turn of the removal loop of updateHooks: os.Remove of the next match
UpdateRemove ==
  /\ cmd.pc = "remove"
  /\ \E ok \in BOOLEAN :
       LET t == cmd.timing
       IN  IF ok
             THEN /\ inst' = [inst EXCEPT ![t].files = Without(@, Head(cmd.todo))]
                  /\ cmd' = [cmd EXCEPT !.todo = Tail(@),
                                        !.pc = Phase(Tail(cmd.todo), cmd.hooks, 0)]
             ELSE /\ cmd' = [cmd EXCEPT !.pc = "done", !.err = "remove"]
                  /\ UNCHANGED inst
  /\ UNCHANGED << reg, stub, disp, prevSync >>

\* one turn of the install loop of updateHooks: updateHookScript(timing, i, h)
UpdateInstall ==
  /\ cmd.pc = "install"
  /\ \E ok \in BOOLEAN :
       LET t == cmd.timing
           i == cmd.idx
           h == cmd.hooks[i + 1]
           r == HookInstall(h, inst[t].files, ArtifactName(i, h), ok)
       IN  /\ inst' = [inst EXCEPT ![t] = [exists |-> TRUE, files |-> r.files]]
           /\ cmd' = IF r.ok
                       THEN [cmd EXCEPT !.idx = i + 1,
                                        !.pc = Phase(<<>>, cmd.hooks, i + 1)]
                       ELSE [cmd EXCEPT !.pc = "done", !.err = "install"]
  /\ UNCHANGED << reg, stub, disp, prevSync >>

\* what the editor may leave of the registry file f, with the modification
\* time read afterwards: f untouched, or one of the texts at any time
EditorLeaves(f, prevModTime, texts) ==
  {<< f, prevModTime >>} \cup
    {<< [exists |-> TRUE, data |-> d], m >> : d \in texts, m \in ModTimes}

\* runEdit: the modification time before (the epoch when the file is absent),
\* the editor, the modification time after, and updateHooks when it is later
runEdit(t, texts) ==
  /\ Quiet
  /\ isCorrectTiming(t)
  /\ LET prevModTime == IF reg[t].exists THEN 1 ELSE 0
     IN  \E exitOk \in BOOLEAN, out \in EditorLeaves(reg[t], prevModTime, texts) :
           LET f           == out[1]
               currModTime == out[2]
               times       == << prevModTime, currModTime >>
               done(err) == Cmd("edit", t, <<>>, "done", err, <<>>, <<>>, 0,
                                AbsentFile, 0, times)
           IN  /\ reg' = [reg EXCEPT ![t] = f]
               /\ IF ~exitOk
                    THEN /\ cmd' = Cmd("edit", t, <<>>, "done", "editor", <<>>,
                                       <<>>, 0, AbsentFile, 0,
                                       << prevModTime, prevModTime >>)
                         /\ UNCHANGED inst
                  ELSE IF ~f.exists
                    THEN cmd' = done("stat") /\ UNCHANGED inst
                  ELSE IF currModTime > prevModTime
                    THEN SyncStart("edit", t, f, times)
                    ELSE cmd' = done("") /\ UNCHANGED inst
  /\ disp' = DispIdle
  /\ prevSync' = NoSync
  /\ UNCHANGED stub

\* showHookList: the registry file is read and written to standard output
showHookList(t) ==
  /\ Quiet
  /\ isCorrectTiming(t)
  /\ cmd' = Returned("show", t, IF reg[t].exists THEN "" ELSE "read")
  /\ disp' = DispIdle
  /\ prevSync' = NoSync
  /\ UNCHANGED << reg, inst, stub >>

\* -------------------------------------------------------------- dispatcher

\* directoryExists: the path exists and is a directory
directoryExists(st) == st = "dir"

\* gitRebaseInProgress, from what directoryExists returned for rebase-merge
\* and for rebase-apply
RebaseBoth(mergeExists, rebaseExists) == mergeExists /\ rebaseExists

gitRebaseInProgress(mergeExists, rebaseExists) == mergeExists \/ rebaseExists

\* a child process that was run, and whether its Run returned no error
Ran(name, ok) == [name |-> name, ok |-> ok]

\* the loop of runTest returns at the first script whose Run returns an error
NeverAborts(ok) == FALSE

AbortsChain(ok) == ~ok

\* runTest up to its loop: the rebase check, then the glob of the installed
\* directory, sorted by name; during and at say where an update stood then
TestStart(t, during, at) ==
  \E rm, ra \in PathStates :
       LET mergeExists  == directoryExists(rm)
           rebaseExists == directoryExists(ra)
           d(pc, todo) ==
             [pc |-> pc, timing |-> t, rebase |-> << mergeExists, rebaseExists >>,
              todo |-> todo, ran |-> <<>>, err |-> "", during |-> during, at |-> at]
       IN  disp' = IF gitRebaseInProgress(mergeExists, rebaseExists)
                     THEN d("done", <<>>)
                     ELSE LET matches == SortStrings(Names(inst[t].files))
                          IN  IF matches = <<>> THEN d("done", <<>>)
                              ELSE d("run", matches)

\* the test command, invoked while no other command is under way
runTest(t) ==
  /\ Quiet
  /\ isCorrectTiming(t)
  /\ TestStart(t, "", 0)
  /\ cmd' = Idle
  /\ prevSync' = NoSync
  /\ UNCHANGED << reg, inst, stub >>

\* the test command, invoked by git in another process while updateHooks is
\* in one of its loops on the same timing: nothing locks the directory
runTestDuring(t) ==
  /\ cmd.pc \in {"remove", "install"}
  /\ cmd.timing = t
  /\ disp.pc \in {"idle", "done"}
  /\ isCorrectTiming(t)
  /\ TestStart(t, cmd.pc, cmd.idx)
  /\ UNCHANGED << reg, inst, stub, cmd, prevSync >>

\* one turn of the loop of runTest: the next script is run as a child process;
\* Run returns an error when the script is no longer there
TestRun ==
  /\ disp.pc = "run"
  /\ \E ok \in IF Head(disp.todo) \in Names(inst[disp.timing].files)
                 THEN BOOLEAN ELSE {FALSE} :
       disp' = IF AbortsChain(ok)
                 THEN [disp EXCEPT !.ran = Append(@, Ran(Head(disp.todo), ok)),
                                   !.pc = "done", !.err = "exec"]
                 ELSE [disp EXCEPT !.ran = Append(@, Ran(Head(disp.todo), ok)),
                                   !.todo = Tail(@),
                                   !.pc = IF Tail(disp.todo) = <<>> THEN "done"
                                          ELSE "run"]
  /\ UNCHANGED << reg, inst, stub, cmd, prevSync >>

\* ----------------------------------------------------------- specification

CmdNames == {"install", "test", "edit", "update", "show"}

Next ==
  \/ createRootHook
  \/ \E t \in ArgTimings, s \in InstallArgs : installHook(t, s)
  \/ \E t \in ArgTimings : updateHooks(t)
  \/ UpdateRemove
  \/ UpdateInstall
  \/ \E t \in ArgTimings : runEdit(t, EditContents)
  \/ \E t \in ArgTimings : showHookList(t)
  \/ \E t \in ArgTimings : runTest(t)
  \/ TestRun

Spec == Init /\ [][Next]_vars

\* a registry of more than ten entries, written by the editor, synchronized
\* and dispatched
NextLong ==
  \/ \E t \in CmdTimings : runEdit(t, LongContents)
  \/ \E t \in CmdTimings : updateHooks(t)
  \/ UpdateRemove
  \/ UpdateInstall
  \/ \E t \in CmdTimings : runTest(t)
  \/ TestRun

SpecLong == Init /\ [][NextLong]_vars

\* registration strings of every kind, installed, listed and synchronized
NextResolve ==
  \/ \E t \in CmdTimings, s \in ResolveArgs : installHook(t, s)
  \/ \E t \in CmdTimings : showHookList(t)
  \/ \E t \in CmdTimings : updateHooks(t)
  \/ UpdateRemove
  \/ UpdateInstall

SpecResolve == Init /\ [][NextResolve]_vars

\* git invoking the dispatcher from another process while a sync is in one of
\* its loops: the two processes take their steps in any order
NextConc ==
  \/ \E t \in CmdTimings : runEdit(t, EditContents)
  \/ \E t \in CmdTimings : updateHooks(t)
  \/ UpdateRemove
  \/ UpdateInstall
  \/ \E t \in CmdTimings : runTestDuring(t)
  \/ TestRun

SpecConc == Init /\ [][NextConc]_vars

\* what hooks/pre-commit may hold before git-hook is first run: nothing, a
\* stub written earlier, a shorter script, or a longer script
OldStubs ==
  { AbsentFile,
    [exists |-> TRUE, data |-> rootHookFormat("pre-commit")],
    [exists |-> TRUE, data |-> << "l", "s", "\n" >>],
    [exists |-> TRUE,
     data |-> [i \in 1..Len(rootHookFormat("pre-commit")) |-> "#"]
              \o << "\n", "l", "s", "\n" >>] }

\* what hooks/pre-commit.installed may hold while pre-commit.hooks is absent:
\* nothing, or an artifact of a registry that was deleted since
OldInstalled ==
  { NoDir, [exists |-> TRUE, files |-> {Link(<< "0", "-", "x" >>, LocalX)}] }

\* a repository in which hooks/pre-commit and hooks/pre-commit.installed may
\* exist already
InitOld ==
  /\ reg = [t \in Held |-> AbsentFile]
  /\ \E old \in OldInstalled :
       inst = [t \in Held |-> IF t = "pre-commit" THEN old ELSE NoDir]
  /\ \E old \in OldStubs :
       stub = [t \in Held |-> IF t = "pre-commit" THEN old ELSE AbsentFile]
  /\ cmd = Idle
  /\ disp = DispIdle
  /\ prevSync = NoSync

\* init at any moment between the other commands
NextBoot ==
  \/ createRootHook
  \/ \E t \in CmdTimings, s \in InstallArgs : installHook(t, s)
  \/ \E t \in CmdTimings : updateHooks(t)
  \/ UpdateRemove
  \/ UpdateInstall
  \/ \E t \in CmdTimings : runEdit(t, ArgContents)
  \/ \E t \in CmdTimings : runTest(t)
  \/ TestRun

SpecBoot == InitOld /\ [][NextBoot]_vars

\* the commands on few inputs, and also those given no timing or a name that
\* is none
NextArgs ==
  \/ createRootHook
  \/ \E t \in ArgTimings : installHook(t, LocalX)
  \/ \E t \in ArgTimings : updateHooks(t)
  \/ UpdateRemove
  \/ UpdateInstall
  \/ \E t \in ArgTimings : runEdit(t, ArgContents)
  \/ \E t \in ArgTimings : showHookList(t)
  \/ \E t \in ArgTimings : runTest(t)
  \/ TestRun
  \/ \E name \in CmdNames, args \in ArgLists : WrongTiming(name, args)

SpecArgs == Init /\ [][NextArgs]_vars

\* ------------------------------------------------------------- properties

\* the descriptor strings of a list of hooks
Strings(hooks) == [i \in 1..Len(hooks) |-> HookString(hooks[i])]

\* the artifact names a registry text calls for, in registry order: one for
\* each line that is not blank, numbered from 0
RebuildNames(data) ==
  LET lines == KeptLines(data)
  IN  [i \in 1..Len(lines) |-> ArtifactName(i - 1, ParseHookString(lines[i]).hook)]

RebuildSet(data) == {RebuildNames(data)[i] : i \in 1..Len(RebuildNames(data))}

\* the installed directory of t holds what its registry calls for, no more
InSync(t) ==
  /\ reg[t].exists
  /\ Names(inst[t].files) = RebuildSet(reg[t].data)
  /\ Cardinality(inst[t].files) = Len(KeptLines(reg[t].data))

Succeeded(name) == cmd.name = name /\ cmd.pc = "done" /\ cmd.err = ""

\* C1: after a successful update of a timing, whatever its installed
\* directory held before, the directory holds exactly the files i-Name(e_i),
\* one for each non-blank registry line e_i, numbered from 0 in file order
C1_UpdateRebuilds ==
  \A t \in CmdTimings : Succeeded("update") /\ cmd.timing = t => InSync(t)

\* an update succeeded on a registry of at least one entry and found more
\* files installed than the registry has entries
C1_Witness ==
  /\ Succeeded("update")
  /\ Len(cmd.hooks) >= 1
  /\ cmd.found > Len(cmd.hooks)

\* C2: after a successful install of a timing, its installed directory has no
\* orphaned and no missing artifact: it holds what a rebuild from the
\* registry would produce
C2_InstallRebuilds ==
  \A t \in CmdTimings : Succeeded("install") /\ cmd.timing = t => InSync(t)

\* C3: after a successful install(t, s) the entries read from the registry are
\* the entries it held before, in their order, followed by s
C3_InstallAppendsLast ==
  \A t \in CmdTimings :
    Succeeded("install") /\ cmd.timing = t =>
      /\ allHooks(reg[t]).ok
      /\ Strings(allHooks(reg[t]).hooks)
           = Strings(allHooks(cmd.pre).hooks) \o << cmd.arg >>

\* C4: with the installed directory in step with a registry of any length, no
\* rebase in progress and no hook failing, the dispatcher runs the artifacts
\* in registry order
C4_RunsInRegistryOrder ==
  \A t \in CmdTimings :
    ( /\ disp.pc = "done" /\ disp.timing = t /\ disp.err = ""
      /\ ~disp.rebase[1] /\ ~disp.rebase[2]
      /\ InSync(t) )
    => [i \in 1..Len(disp.ran) |-> disp.ran[i].name] = RebuildNames(reg[t].data)

\* C5: when rebase-merge or rebase-apply exists as a directory at the start of
\* test, no child process is run and test succeeds, whatever is installed
C5_RebaseSkips ==
  disp.pc # "idle" /\ (disp.rebase[1] \/ disp.rebase[2])
    => disp.pc = "done" /\ disp.ran = <<>> /\ disp.err = ""

\* test returned success with a rebase directory present and files installed
C5_Witness ==
  /\ disp.pc = "done"
  /\ disp.rebase[1] # disp.rebase[2]
  /\ Cardinality(inst[disp.timing].files) >= 2
  /\ disp.ran = <<>>

\* C6: with no rebase in progress the dispatcher runs the installed files one
\* at a time in the order of their names; a child that fails is the last one
\* run and makes test fail; test succeeds only when every file ran and none
\* failed
C6_ChainStopsAtFailure ==
  disp.pc \in {"run", "done"} /\ ~disp.rebase[1] /\ ~disp.rebase[2] =>
    LET m == SortStrings(Names(inst[disp.timing].files))
        n == Len(disp.ran)
    IN  /\ n <= Len(m)
        /\ \A i \in 1..n : disp.ran[i].name = m[i]
        /\ \A i \in 1..n :
             ~disp.ran[i].ok => i = n /\ disp.pc = "done" /\ disp.err # ""
        /\ disp.pc = "done" /\ disp.err = "" => n = Len(m)
        /\ disp.pc = "done" /\ disp.err # "" => n >= 1 /\ ~disp.ran[n].ok

\* test failed at its second child and a third was never run
C6_Witness ==
  /\ disp.pc = "done"
  /\ disp.err # ""
  /\ Len(disp.ran) = 2
  /\ disp.ran[1].ok
  /\ Cardinality(inst[disp.timing].files) >= 3

\* C7: an install that fails while resolving its argument or installing the
\* artifact leaves the registry file as it was
C7_FailedInstallKeepsRegistry ==
  \A t \in CmdTimings :
    cmd.name = "install" /\ cmd.timing = t /\ cmd.pc = "done"
      /\ cmd.err \in {"parse", "install"}
    => reg[t] = cmd.pre

\* an install failed on a registry that holds an entry
C7_Witness ==
  /\ cmd.name = "install"
  /\ cmd.pc = "done"
  /\ cmd.err = "install"
  /\ cmd.pre.exists
  /\ Len(KeptLines(cmd.pre.data)) >= 1

\* C8: a successful update that follows a successful update of the same
\* timing, with nothing in between, leaves the installed directory as the
\* first left it: the same names with the same contents
C8_UpdateIdempotent ==
  \A t \in CmdTimings :
    Succeeded("update") /\ cmd.timing = t /\ prevSync.valid
      => inst[t].files = prevSync.files

\* the second of two updates succeeded on a link and a fetched file
C8_Witness ==
  /\ Succeeded("update")
  /\ prevSync.valid
  /\ \E e \in prevSync.files : e.kind = "link"
  /\ \E e \in prevSync.files : e.kind = "file"

\* a registration string that starts as an http URL and is no well-formed URL
Malformed(s) ==
  (HasPrefix(s, HttpPrefix) \/ HasPrefix(s, HttpsPrefix)) /\ ~ParseUrlHook(s).ok

\* C9: a registration string that starts with http:// or https:// and is not
\* a well-formed URL is rejected, so reading a registry that holds such a
\* line fails
C9_MalformedUrlRejected ==
  ( /\ cmd.name \in {"update", "edit"}
    /\ cmd.pre.exists
    /\ \E i \in 1..Len(KeptLines(cmd.pre.data)) :
         Malformed(KeptLines(cmd.pre.data)[i]) )
  => cmd.pc = "done" /\ cmd.err = "read"

\* C10: the hooks read from a registry are, in file order, those of its lines
\* that are not blank, each resolved from the trimmed text of its line
C10_EntriesAreTrimmed ==
  ( /\ cmd.name \in {"update", "edit"}
    /\ cmd.pre.exists
    /\ cmd.err # "read" )
  => LET lines == KeptLines(cmd.pre.data)
     IN  cmd.hooks = [i \in 1..Len(lines) |-> ParseHookString(TrimSpace(lines[i])).hook]

\* C11: the string form of the hook resolved from a registration string S, of
\* URL form or of path form, is S itself, and it is the line a successful
\* install(T, S) appends to the registry
C11_StringRoundTrip ==
  /\ ( cmd.name = "install" /\ cmd.pc = "done" /\ cmd.err # "parse" )
       => HookString(cmd.hooks[1]) = cmd.arg
  /\ Succeeded("install")
       => reg[cmd.timing].data = cmd.pre.data \o cmd.arg \o << "\n" >>

\* C12: a step in which install, test, edit, update or show is given no
\* timing, or a name that is not one of the 15 timings, returns the error
\* "wrong timing" at once: it leaves every registry file, installed directory
\* and stub as it was, starts no editor and no sync, and runs no hook
C12_WrongTimingRejected ==
  [][ ( \/ cmd'.name \in CmdNames /\ cmd'.timing \notin TimingSet
        \/ disp'.pc # "idle" /\ disp'.timing \notin TimingSet )
      => /\ cmd' = Returned(cmd'.name, cmd'.timing, "wrong timing")
         /\ disp' = DispIdle
         /\ UNCHANGED << reg, inst, stub >> ]_vars

\* an install without a timing was rejected in a repository that holds a
\* stub, a registry entry and an installed artifact
C12_Witness ==
  /\ cmd = Returned("install", "", "wrong timing")
  /\ stub["pre-commit"].exists
  /\ KeptLines(reg["pre-commit"].data) # <<>>
  /\ inst["pre-commit"].files # {}

\* the file init is to leave at hooks/<t>: the two-line delegation script
StubFile(t) == [exists |-> TRUE, data |-> rootHookFormat(t)]

\* C13: a step of init leaves at hooks/<timing>, for every timing, exactly the
\* two-line delegation script, whatever the file held before; and a step of
\* init that follows an init changes no file
C13_InitOverwritesStubs ==
  [][ ( cmd'.name = "init" /\ cmd'.pc = "done" /\ cmd'.err = "" )
      => /\ \A t \in Tracked : stub'[t] = StubFile(t)
         /\ cmd.name = "init" => UNCHANGED << reg, inst, stub >> ]_vars

\* C14: a step of init leaves every installed directory as it was and the
\* entries of every registry file that exists as they were, and creates an
\* empty registry file for each timing that has none, so that afterwards
\* allHooks succeeds for every timing, with no entry where the file was made
C14_InitKeepsRegistries ==
  [][ ( cmd'.name = "init" /\ cmd'.pc = "done" /\ cmd'.err = "" )
      => /\ inst' = inst
         /\ \A t \in Tracked :
              /\ reg[t].exists => allHooks(reg'[t]) = allHooks(reg[t])
              /\ ~reg[t].exists => reg'[t] = [exists |-> TRUE, data |-> <<>>]
              /\ allHooks(reg'[t]).ok
              /\ ~reg[t].exists => allHooks(reg'[t]).hooks = <<>> ]_vars

\* init succeeded where one timing had registry entries and installed
\* artifacts and another has an empty registry file
C14_Witness ==
  /\ Succeeded("init")
  /\ KeptLines(reg["pre-commit"].data) # <<>>
  /\ inst["pre-commit"].files # {}
  /\ reg["post-rewrite"] = [exists |-> TRUE, data |-> <<>>]

\* the edit command entered updateHooks: it read the registry the editor left
EditSynced == cmd.name = "edit" /\ cmd.pre.exists

\* C15: when the editor exits successfully and the modification time read
\* after it differs from the one read before, edit runs a sync; when the two
\* are equal it runs none and returns success; when the editor fails, edit
\* returns that error and runs no sync
C15_EditSyncsWhenChanged ==
  cmd.name = "edit" =>
    /\ ( cmd.err \notin {"editor", "stat"} /\ cmd.times[1] # cmd.times[2] )
         => EditSynced
    /\ ( cmd.err \notin {"editor", "stat"} /\ cmd.times[1] = cmd.times[2] )
         => ~EditSynced /\ cmd.pc = "done" /\ cmd.err = ""
    /\ cmd.err = "editor" => ~EditSynced /\ cmd.pc = "done"

\* the artifact names of the first k entries of a registry text
FirstNames(data, k) == {RebuildNames(data)[i] : i \in 1..k}

\* C16: when the install of entry k fails during a sync of n entries, the
\* sync returns that error with the registry as it read it, the artifacts of
\* entries 0..k-1 are installed, and nothing else is, save what the failed
\* install of entry k left: what was installed before is removed and no
\* install of entries k+1..n-1 is attempted
C16_PartialSyncNoRollback ==
  ( cmd.name \in {"update", "edit"} /\ cmd.pc = "done" /\ cmd.err = "install" )
  => LET t == cmd.timing
         k == cmd.idx
     IN  /\ reg[t] = cmd.pre
         /\ k < Len(cmd.hooks)
         /\ Len(cmd.hooks) = Len(RebuildNames(cmd.pre.data))
         /\ FirstNames(cmd.pre.data, k) \subseteq Names(inst[t].files)
         /\ Names(inst[t].files) \subseteq FirstNames(cmd.pre.data, k + 1)

\* a sync that found artifacts installed failed at an entry that has entries
\* before it and after it
C16_Witness ==
  /\ cmd.name \in {"update", "edit"} /\ cmd.pc = "done" /\ cmd.err = "install"
  /\ cmd.found >= 1
  /\ cmd.idx >= 1
  /\ cmd.idx + 1 < Len(cmd.hooks)

\* the names of the scripts the dispatcher ran
RanNames == {disp.ran[i].name : i \in 1..Len(disp.ran)}

NoRebase == ~gitRebaseInProgress(disp.rebase[1], disp.rebase[2])

\* C17: a sync is not atomic for a dispatcher invoked meanwhile. While the
\* sync is in its install loop at entry k, the installed directory holds only
\* the artifacts of entries 0..k-1, fewer than the registry has (none when
\* k = 0); a test that enumerated the directory then and reports success has
\* run exactly those, each with success, and not the hooks registered after
C17_SyncNotAtomic ==
  /\ ( cmd.name \in {"update", "edit"} /\ cmd.pc = "install" )
       => /\ cmd.idx < Len(cmd.hooks)
          /\ Names(inst[cmd.timing].files) = FirstNames(cmd.pre.data, cmd.idx)
  /\ ( disp.during = "install" /\ disp.pc = "done" /\ disp.err = "" /\ NoRebase )
       => /\ disp.at < Len(cmd.hooks)
          /\ RanNames = FirstNames(cmd.pre.data, disp.at)
          /\ \A i \in 1..Len(disp.ran) : disp.ran[i].ok

\* a sync of a registry with entries found artifacts installed and removed
\* them; a test that enumerated the directory before the first install ran no
\* hook and reported success
C17_Witness ==
  /\ cmd.name \in {"update", "edit"}
  /\ Len(cmd.hooks) >= 1
  /\ cmd.found >= 1
  /\ disp.during = "install" /\ disp.at = 0
  /\ disp.pc = "done" /\ disp.err = "" /\ NoRebase
  /\ disp.ran = <<>>

\* C18: a step of update on a timing whose registry file is absent returns
\* the read error at once and leaves every installed directory as it was: no
\* artifact is removed or made and the directory is not created
C18_UpdateWithoutRegistry ==
  [][ ( cmd'.name = "update" /\ ~reg'[cmd'.timing].exists )
      => /\ cmd'.pc = "done" /\ cmd'.err = "read"
         /\ cmd'.hooks = <<>> /\ cmd'.todo = <<>>
         /\ UNCHANGED << reg, inst >> ]_vars

\* an update failed on the read where the registry file is absent and the
\* installed directory holds an artifact
C18_Witness ==
  /\ cmd.name = "update" /\ cmd.pc = "done" /\ cmd.err = "read"
  /\ ~reg[cmd.timing].exists
  /\ inst[cmd.timing].files # {}

\* an installed file whose name starts with the index i and a dash
CarriesIndex(e, i) == HasPrefix(e.name, Itoa(i) \o << "-" >>)

\* C19: install(T, S) uses the index equal to the number of hooks allHooks
\* returns when it is called, and no artifact of T carries that index but the
\* one a successful install makes; when the registry file is absent no read
\* error is returned, the index is 0, and a successful install leaves a
\* registry whose only line is S
C19_InstallAtFreeIndex ==
  ( cmd.name = "install" /\ cmd.pc = "done" /\ cmd.err # "parse" )
  => LET t == cmd.timing
         h == cmd.hooks[1]
     IN  /\ cmd.idx = Len(allHooks(cmd.pre).hooks)
         /\ \A e \in inst[t].files :
              CarriesIndex(e, cmd.idx)
                => Succeeded("install") /\ e.name = ArtifactName(cmd.idx, h)
         /\ ~cmd.pre.exists
              => /\ cmd.idx = 0
                 /\ cmd.err # "read"
                 /\ Succeeded("install")
                      => reg[t] = [exists |-> TRUE, data |-> cmd.arg \o << "\n" >>]

====
